---- MODULE Spec2Model ----
(***************************************************************************)
(* Model of pypresence's BaseClient IPC transport (baseclient.py): the     *)
(* _SocketReader / _SocketWriter loops, the frame codec used by send_data  *)
(* and read_output, and the handshake.  One client talks to one peer over  *)
(* a stream socket; the peer and the socket primitive are the environment. *)
(*                                                                         *)
(* Bytes are naturals below 256.  A JSON document is abstracted to one     *)
(* byte per token: '{', then a (key, value) byte pair per member, then     *)
(* '}'.  Keys and values are strings; KeyOrder and ValueTable give their   *)
(* token bytes.  The nested object {"message": m} under "data" is held as  *)
(* the string m.                                                           *)
(***************************************************************************)
EXTENDS Integers, Sequences, FiniteSets, TLC

\* ---------------------------------------------------------------- bounds
\* bytes the peer may put on one connection
MaxStream == 28
\* bytes the application may hand to one connection
MaxWire == 28
\* threads that call the simulated pipe functions
NumThreads == 2
\* send_message calls in one run
MaxSends == 2
\* bytes in the stream given to a bare transport
MaxIn == 3

\* ------------------------------------------------------------- JSON codec
LBRACE == 123
RBRACE == 125

KeyOrder == <<"v", "client_id", "code", "message", "evt", "data", "cmd">>

ValueTable == <<"1", "cid", "4000", "4001", "Invalid Client ID",
                "Something else", "ERROR", "READY", "boom", "PING">>

KeyByte(k) == CHOOSE i \in 1..Len(KeyOrder) : KeyOrder[i] = k

ValueByte(s) == CHOOSE i \in 1..Len(ValueTable) : ValueTable[i] = s

Min(a, b) == IF a < b THEN a ELSE b

RECURSIVE DumpMembers(_, _)
DumpMembers(p, i) ==
    IF i > Len(KeyOrder) THEN <<>>
    ELSE (IF KeyOrder[i] \in DOMAIN p
          THEN <<KeyByte(KeyOrder[i]), ValueByte(p[KeyOrder[i]])>>
          ELSE <<>>) \o DumpMembers(p, i + 1)

\* json.dumps(payload): ASCII text, so len(payload_string) is its byte count.
Dumps(p) == <<LBRACE>> \o DumpMembers(p, 1) \o <<RBRACE>>

Members(b) == 1..((Len(b) - 2) \div 2)

\* json.loads accepts the text (anything else is a JSONDecodeError).
IsJSON(b) ==
    /\ Len(b) >= 2
    /\ Len(b) % 2 = 0
    /\ b[1] = LBRACE
    /\ b[Len(b)] = RBRACE
    /\ \A j \in Members(b) : /\ b[2 * j] \in 1..Len(KeyOrder)
                             /\ b[2 * j + 1] \in 1..Len(ValueTable)

\* json.loads(text) of an accepted text: a repeated key keeps its last value.
Loads(b) ==
    [k \in {KeyOrder[b[2 * j]] : j \in Members(b)} |->
        LET last == CHOOSE j \in Members(b) :
                        /\ KeyOrder[b[2 * j]] = k
                        /\ \A j2 \in Members(b) : KeyOrder[b[2 * j2]] = k => j2 <= j
        IN ValueTable[b[2 * last + 1]]]

\* ----------------------------------------------------------- frame header
LE4(x) == <<x % 256, (x \div 256) % 256, (x \div 65536) % 256, (x \div 16777216) % 256>>

\* struct.pack("<II", op, length)
PackII(op, length) == LE4(op) \o LE4(length)

\* A 32-bit field is held as the word [top, lo] that stands for
\* top * 2^24 + lo, with lo below 2^24: an unsigned field has top in 0..255, a
\* signed one in -128..127, and two words are equal exactly when their values are.
Word(top, lo) == [top |-> top, lo |-> lo]

Low24(b, i) == b[i] + 256 * b[i + 1] + 65536 * b[i + 2]

\* struct format "I": one little-endian unsigned 32-bit field starting at byte i
U32Word(b, i) == Word(b[i + 3], Low24(b, i))

\* struct format "i": one little-endian signed 32-bit field starting at byte i
I32Word(b, i) == Word(IF b[i + 3] >= 128 THEN b[i + 3] - 256 ELSE b[i + 3], Low24(b, i))

\* the integer a word stands for (the values of the frames exchanged here stay
\* below 2^31)
WordValue(w) == 16777216 * w.top + w.lo

U32(b, i) == WordValue(U32Word(b, i))

I32(b, i) == WordValue(I32Word(b, i))

\* status_code, length = struct.unpack("<II", preamble[:8]) in read_output
UnpackII(b) == [op |-> U32(b, 1), length |-> U32(b, 5)]

\* code, length = struct.unpack("<ii", preamble) in handshake
Unpackii(b) == [op |-> I32(b, 1), length |-> I32(b, 5)]

\* the same two decodings, as words
UnpackIIWords(b) == [op |-> U32Word(b, 1), length |-> U32Word(b, 5)]

UnpackiiWords(b) == [op |-> I32Word(b, 1), length |-> I32Word(b, 5)]

\* the bytes send_data hands to the writer
FrameBytes(op, p) == PackII(op, Len(Dumps(p))) \o Dumps(p)


\* ------------------------------------------------------------ environment
\* str(client_id) given to BaseClient.__init__
ClientIds == {"cid"}

\* opcodes and payloads the caller passes to send_data
Opcodes == {1, 2}

SendPayloads == { [cmd |-> "PING"],
                  [evt |-> "READY", data |-> "boom"],
                  [evt |-> "ERROR", data |-> "boom"] }

\* frames the peer may put on the stream: an opcode and a JSON object
Replies == { [op |-> 1, obj |-> [v |-> "1"]],
             [op |-> 2, obj |-> [code |-> "4000", message |-> "Invalid Client ID"]],
             [op |-> 2, obj |-> [code |-> "4001", message |-> "Something else"]],
             [op |-> 2, obj |-> [code |-> "4000"]],
             [op |-> 1, obj |-> [evt |-> "ERROR", data |-> "boom"]],
             [op |-> 1, obj |-> [evt |-> "READY", data |-> "boom"]] }

\* peer messages that are not a well-formed frame: a header announcing one
\* byte followed by a lone '{', and a header announcing an empty payload
RawMsgs == { PackII(1, 1) \o <<LBRACE>>, PackII(1, 0) }

\* the frame the peer may send only in part, and where it may cut it
PartialFrame == FrameBytes(1, [v |-> "1"])

PartialCuts == {3, 9}

NoObj == [k \in {} |-> ""]

VARIABLES
    client_id,      \* BaseClient.client_id
    sock_reader,    \* BaseClient.sock_reader: "None" or "sock"
    sock_writer,    \* BaseClient.sock_writer: "None" or "sock"
    pc,             \* where the caller's thread is
    n,              \* _SocketReader.read: n
    data,           \* _SocketReader.read: data
    header,         \* the unpacked preamble: [op, length]
    wdata,          \* _SocketWriter.write: data
    total_sent,     \* _SocketWriter.write: total_sent
    outcome,        \* the current or last call: [call, status, args]
    stream,         \* every byte the peer has put on the socket
    consumed,       \* how many of them recv has returned
    peerClosed,     \* the peer has closed its end
    sockClosed,     \* _sock.close() has been called
    wire,           \* every byte send has accepted
    readStart,      \* consumed when the running read(n) was entered
    lastRead,       \* the last read(n) that returned: [n, at, bytes, upto]
    callStart,      \* consumed when the running call was entered
    zeroIO,         \* where recv returned b"" or send returned 0 in the last call
    opened,         \* the running handshake opened a socket
    ready,          \* the last handshake returned normally
    peerLog,        \* what the peer sent: [at, kind, op, obj]
    sentLog,        \* frames handed to the writer: [at, len, op, p]
    echoed,         \* frames of sentLog the peer has echoed
    reclosed,       \* close() has been called on a writer already closed
    handle,         \* NamedPipe.handle: "None", "h" or "INVALID"
    handleOpen,     \* the kernel's pipe object behind the handle is open
    np_out,         \* the last call on the NamedPipe: [call, status, args]
    np_reclosed,    \* NamedPipe.close() has been called with handle None
    np_pc,          \* the call pending on the NamedPipe: "idle", "read" or "write"
    np_wire,        \* the bytes WriteFile has accepted from the last write
    cuts,           \* the stream offsets at which the primitive's reads stop
    accept,         \* the most bytes the primitive's write accepts in one call
    preamble,       \* the 8 bytes read(8) returned as a frame's header
    hsHeader,       \* code, length as handshake unpacks the preamble
    roHeader,       \* status_code, length as read_output unpacks the preamble
    unpackedBy,     \* the calls that have unpacked the preamble
    registry,       \* _pipes_registry: pipe name -> the Queue's items, oldest first
    lock,           \* _pipes_lock: Free, or the thread that holds it
    tpc,            \* where each thread is
    targs,          \* each thread's running call: [call, name, data, known];
                    \* known: named_pipe_exists was called after the name's
                    \* create_named_pipe had returned
    tq,             \* q, the queue each thread has looked up: "None" or its name
    returned,       \* the call that returned in the last step, if one did:
                    \* [thread, call, name, status, value, known]
    nsent,          \* how many send_message calls have been made
    created,        \* the names for which create_named_pipe has returned
    sentSeq,        \* per name, the messages sent, in the order the sends completed
    rcvSeq          \* per name, the messages receive_message returned, in order

vars == <<client_id, sock_reader, sock_writer, pc, n, data,
          header, wdata, total_sent, outcome, stream, consumed, peerClosed,
          sockClosed, wire, readStart, lastRead, callStart, zeroIO,
          opened, ready, peerLog, sentLog, echoed, reclosed,
          handle, handleOpen, np_out, np_reclosed, np_pc, np_wire, cuts, accept,
          preamble, hsHeader, roHeader, unpackedBy,
          registry, lock, tpc, targs, tq, returned, nsent, created, sentSeq, rcvSeq>>

configVars == <<client_id>>
sessVars == <<sock_reader, sock_writer>>
readVars == <<n, data, header, readStart, lastRead>>
writeVars == <<wdata, total_sent>>
peerVars == <<stream, peerClosed, peerLog, echoed>>
clientVars == <<client_id, sock_reader, sock_writer, pc, n, data,
                header, wdata, total_sent, outcome, stream, consumed, peerClosed,
                sockClosed, wire, readStart, lastRead, callStart, zeroIO,
                opened, ready, peerLog, sentLog, echoed, reclosed>>
pipeVars == <<handle, handleOpen, np_out, np_reclosed, np_pc, np_wire, cuts, accept>>
\* what of the client a bare read or write on its reader or writer leaves alone
clientRest == <<client_id, sock_reader, sock_writer, header, peerClosed, sockClosed,
                readStart, lastRead, callStart, zeroIO, opened, ready, peerLog,
                sentLog, echoed, reclosed>>
\* the state of the module's other objects, which the client's calls leave alone
registryVars == <<registry, lock, tpc, targs, tq, returned, nsent, created,
                  sentSeq, rcvSeq>>
headerVars == <<preamble, hsHeader, roHeader, unpackedBy>>
elsewhere == <<pipeVars, registryVars, headerVars>>

NoHeader == [op |-> 0, length |-> 0]

NoRead == [n |-> 0, at |-> 0, bytes |-> <<>>, upto |-> 0]

Outcome(call, status, args) == [call |-> call, status |-> status, args |-> args]

\* BaseClient.__init__, with the reader and the writer it starts with
ClientStart(sock) ==
    /\ client_id \in ClientIds
    /\ sock_reader = sock
    /\ sock_writer = sock
    /\ pc = "idle"
    /\ n = 0
    /\ data = <<>>
    /\ header = NoHeader
    /\ wdata = <<>>
    /\ total_sent = 0
    /\ outcome = Outcome("none", "none", <<>>)
    /\ stream = <<>>
    /\ consumed = 0
    /\ peerClosed = FALSE
    /\ sockClosed = FALSE
    /\ wire = <<>>
    /\ readStart = 0
    /\ lastRead = NoRead
    /\ callStart = 0
    /\ zeroIO = "none"
    /\ opened = FALSE
    /\ ready = FALSE
    /\ peerLog = <<>>
    /\ sentLog = <<>>
    /\ echoed = 0
    /\ reclosed = FALSE

\* NamedPipe.__init__
PipeStart ==
    /\ handle = "None"
    /\ handleOpen = FALSE
    /\ np_out = Outcome("none", "none", <<>>)
    /\ np_reclosed = FALSE
    /\ np_pc = "idle"
    /\ np_wire = <<>>
    /\ cuts = {}
    /\ accept = 0

\* ------------------------------- windows_ipc: the simulated pipe registry
\* (the branches taken when sys.platform is not "win32")
Threads == 1..NumThreads

\* _pipes_lock when no thread holds it
Free == 0

\* the names and the messages the callers pass
PipeNames == {"a", "b"}

Messages == {"Test message"}

NoArgs == [call |-> "none", name |-> "", data |-> <<>>, known |-> FALSE]

NoReturn == [thread |-> Free, call |-> "none", name |-> "", status |-> "none",
             value |-> "", known |-> FALSE]

\* the module is imported: the registry is empty and no thread is in a call
RegistryStart ==
    /\ registry = <<>>
    /\ lock = Free
    /\ tpc = [t \in Threads |-> "idle"]
    /\ targs = [t \in Threads |-> NoArgs]
    /\ tq = [t \in Threads |-> "None"]
    /\ returned = NoReturn
    /\ nsent = 0
    /\ created = {}
    /\ sentSeq = [nm \in PipeNames |-> <<>>]
    /\ rcvSeq = [nm \in PipeNames |-> <<>>]

\* ------------------------------------------- the header, decoded twice
\* the bytes a header field may start and end with
EdgeBytes == {0, 1, 127, 128, 255}

\* headers: an opcode and a length, each given by its lowest and highest byte
Headers == {<<a, 0, 0, b, c, 0, 0, d>> : a \in EdgeBytes, b \in EdgeBytes,
                                          c \in EdgeBytes, d \in EdgeBytes}

NoWords == [op |-> Word(0, 0), length |-> Word(0, 0)]

\* no header is being looked at
HeaderOff ==
    /\ preamble = <<>>
    /\ hsHeader = NoWords
    /\ roHeader = NoWords
    /\ unpackedBy = {}

Init == ClientStart("None") /\ PipeStart /\ RegistryStart /\ HeaderOff


\* ------------------------------------------------- the calls' pure parts
Raise(status, args) == [status |-> status, args |-> args]

\* a handshake that takes the reply's "v" for a rejection
HandshakeReplyOnV(obj) ==
    IF "v" \in DOMAIN obj \/ "code" \in DOMAIN obj
    THEN IF "message" \notin DOMAIN obj
         THEN Raise("KeyError", <<"message">>)
         ELSE IF obj["message"] = "Invalid Client ID"
              THEN Raise("InvalidID", <<>>)
              ELSE Raise("DiscordError", <<obj["code"], obj["message"]>>)
    ELSE Raise("ok", <<>>)

\* a handshake that takes every rejection for an invalid client id
HandshakeReplyAnyCode(obj) ==
    IF "code" \in DOMAIN obj
    THEN IF "message" \notin DOMAIN obj
         THEN Raise("KeyError", <<"message">>)
         ELSE Raise("InvalidID", <<>>)
    ELSE Raise("ok", <<>>)

\* handshake, lines 195-198: what the decoded reply makes the call do
HandshakeReply(obj) ==
    IF "code" \in DOMAIN obj
    THEN IF "message" \notin DOMAIN obj
         THEN Raise("KeyError", <<"message">>)
         ELSE IF obj["message"] = "Invalid Client ID"
              THEN Raise("InvalidID", <<>>)
              ELSE Raise("DiscordError", <<obj["code"], obj["message"]>>)
    ELSE Raise("ok", <<>>)

\* handshake, line 194: json.loads of the bytes read
HandshakeBody(d) ==
    IF IsJSON(d) THEN HandshakeReply(Loads(d))
    ELSE Raise("JSONDecodeError", <<>>)

\* read_output, lines 118-120: what the decoded payload makes the call do
ReadOutputPayload(obj) ==
    IF "evt" \notin DOMAIN obj
    THEN Raise("KeyError", <<"evt">>)
    ELSE IF obj["evt"] = "ERROR"
         THEN IF "data" \notin DOMAIN obj
              THEN Raise("KeyError", <<"data">>)
              ELSE Raise("ServerError", <<obj["data"]>>)
         ELSE Raise("ok", <<obj>>)

\* read_output, line 117: json.loads(data.decode("utf-8"))
ReadOutputBody(d) ==
    IF IsJSON(d) THEN ReadOutputPayload(Loads(d))
    ELSE Raise("JSONDecodeError", <<>>)

\* a read_output that catches struct.error only
ReadOutputExceptStruct(exc) ==
    IF exc \in {"struct.error"} THEN "PipeClosed" ELSE exc

\* read_output, lines 115-116: except (BrokenPipeError, struct.error): raise PipeClosed
ReadOutputExcept(exc) ==
    IF exc \in {"BrokenPipeError", "struct.error"} THEN "PipeClosed" ELSE exc

\* a close() that lets the fault of _sock.close() out
CloseExceptNone(exc) == exc

\* _SocketWriter.close, lines 231-234: try ... except Exception: pass
CloseExcept(exc) == "ok"

\* a reader that asks recv for n bytes on every pass
RecvSizeWhole(want, got) == want

\* _SocketReader.read, line 211: the size asked of recv
RecvSize(want, got) == want - Len(got)

\* a writer that hands send the whole data on every pass
RestWhole(d, sent) == d

\* _SocketWriter.write, line 225: data[total_sent:]
Rest(d, sent) == SubSeq(d, sent + 1, Len(d))

ReadPcs == {"hs_preamble", "hs_body", "ro_preamble", "ro_body"}
WritePcs == {"hs_write", "send_write"}

CallOf(p) ==
    CASE p \in {"hs_write", "hs_preamble", "hs_body"} -> "handshake"
      [] p = "send_write" -> "send_data"
      [] p \in {"ro_preamble", "ro_body"} -> "read_output"

\* the exception a fault inside read() or write() leaves the running call with
Escapes(p, exc) == IF CallOf(p) = "read_output" THEN ReadOutputExcept(exc) ELSE exc

\* the state of the caller after a step: where it is, the read it has entered
\* (if any), and the status of its call
Cont(p, want, hdr, status, args) ==
    [pc |-> p, n |-> want, header |-> hdr, status |-> status, args |-> args,
     read0 |-> FALSE]

Ends(r, hdr) == Cont("idle", 0, hdr, r.status, r.args)

\* the call ends after a read(length) that returned b"" without a recv
EndsRead0(r, hdr) == [Ends(r, hdr) EXCEPT !.read0 = TRUE]

\* what the caller does with the bytes read(n) returned
ReadReturned(d) ==
    CASE pc = "hs_preamble" ->
            IF Len(d) < 8 THEN Ends(Raise("InvalidPipe", <<>>), header)
            ELSE IF Len(d) # 8 THEN Ends(Raise("struct.error", <<>>), header)
            ELSE LET h == Unpackii(d) IN
                 IF h.length <= 0 THEN EndsRead0(HandshakeBody(<<>>), h)
                 ELSE Cont("hs_body", h.length, h, "running", <<>>)
      [] pc = "hs_body" -> Ends(HandshakeBody(d), header)
      [] pc = "ro_preamble" ->
            LET h == UnpackII(SubSeq(d, 1, 8)) IN
            IF h.length <= 0 THEN EndsRead0(ReadOutputBody(<<>>), h)
            ELSE Cont("ro_body", h.length, h, "running", <<>>)
      [] pc = "ro_body" -> Ends(ReadOutputBody(d), header)

\* ------------------------------------------------------------ the client
\* BaseClient.handshake up to the first send: get_ipc_path finds no path, or
\* create_reader_writer fails, or the socket is connected and send_data(0, ...)
\* enters the writer.  A client object is connected at most once: to retry, the
\* application makes a new one.  (Lines 199-201 set sock_reader.feed_data, which
\* nothing reads; it is left out.)
Handshake ==
    /\ pc = "idle"
    /\ sock_reader = "None"
    /\ ready' = FALSE
    /\ zeroIO' = "none"
    /\ \E env \in {"DiscordNotFound", "InvalidPipe", "ConnectionTimeout", "connected"} :
        IF env # "connected"
        THEN /\ outcome' = Outcome("handshake", env, <<>>)
             /\ opened' = FALSE
             /\ UNCHANGED <<pc, sessVars, readVars, writeVars, peerVars, consumed,
                            sockClosed, wire, callStart, sentLog>>
        ELSE LET p == [v |-> "1", client_id |-> client_id] IN
             /\ sock_reader' = "sock"
             /\ sock_writer' = "sock"
             /\ opened' = TRUE
             /\ stream' = <<>>
             /\ consumed' = 0
             /\ peerClosed' = FALSE
             /\ sockClosed' = FALSE
             /\ wire' = <<>>
             /\ peerLog' = <<>>
             /\ echoed' = 0
             /\ callStart' = 0
             /\ sentLog' = <<[at |-> 0, len |-> Len(FrameBytes(0, p)), op |-> 0, p |-> p]>>
             /\ wdata' = FrameBytes(0, p)
             /\ total_sent' = 0
             /\ pc' = "hs_write"
             /\ outcome' = Outcome("handshake", "running", <<>>)
             /\ header' = NoHeader
             /\ lastRead' = NoRead
             /\ readStart' = 0
             /\ UNCHANGED <<n, data>>
    /\ UNCHANGED <<configVars, elsewhere, reclosed>>

\* BaseClient.send_data up to the first send
SendData(op, p) ==
    /\ pc = "idle"
    /\ Len(wire) + Len(FrameBytes(op, p)) <= MaxWire
    /\ zeroIO' = "none"
    /\ callStart' = consumed
    /\ IF sock_writer = "None"
       THEN /\ outcome' = Outcome("send_data", "AssertionError", <<>>)
            /\ UNCHANGED <<pc, writeVars, sentLog>>
       ELSE /\ wdata' = FrameBytes(op, p)
            /\ total_sent' = 0
            /\ pc' = "send_write"
            /\ outcome' = Outcome("send_data", "running", <<>>)
            /\ sentLog' = Append(sentLog, [at |-> Len(wire), len |-> Len(FrameBytes(op, p)),
                                           op |-> op, p |-> p])
    /\ UNCHANGED <<configVars, elsewhere, reclosed, sessVars, readVars, peerVars, consumed, sockClosed,
                   wire, opened, ready>>

\* one pass of the loop of _SocketWriter.write, and what follows its return.
\* send on a socket whose peer is gone accepts nothing; the frame then leaves
\* the log of frames written.
WriteStep ==
    /\ pc \in WritePcs
    /\ total_sent < Len(wdata)
    /\ IF sockClosed \/ peerClosed
       THEN /\ pc' = "idle"
            /\ outcome' = Outcome(CallOf(pc),
                                  Escapes(pc, IF sockClosed THEN "OSError"
                                              ELSE "BrokenPipeError"), <<>>)
            /\ wdata' = <<>>
            /\ total_sent' = 0
            /\ sentLog' = SubSeq(sentLog, 1, Len(sentLog) - 1)
            /\ zeroIO' = IF sockClosed THEN zeroIO ELSE pc
            /\ UNCHANGED <<wire, n, data, readStart, callStart>>
       ELSE \E sent \in 1..Len(Rest(wdata, total_sent)) :
            /\ wire' = wire \o SubSeq(Rest(wdata, total_sent), 1, sent)
            /\ UNCHANGED <<sentLog, zeroIO>>
            /\ IF total_sent + sent < Len(wdata)
               THEN /\ total_sent' = total_sent + sent
                    /\ UNCHANGED <<pc, outcome, wdata, n, data, readStart, callStart>>
               ELSE /\ wdata' = <<>>
                    /\ total_sent' = 0
                    /\ IF pc = "send_write"
                       THEN /\ pc' = "idle"
                            /\ outcome' = Outcome("send_data", "ok", <<>>)
                            /\ UNCHANGED <<n, data, readStart, callStart>>
                       ELSE /\ pc' = "hs_preamble"
                            /\ n' = 8
                            /\ data' = <<>>
                            /\ readStart' = consumed
                            /\ callStart' = consumed
                            /\ UNCHANGED outcome
    /\ UNCHANGED <<configVars, elsewhere, reclosed, sessVars, header, lastRead, peerVars, consumed, sockClosed,
                   opened, ready>>

\* BaseClient.read_output up to the first recv
ReadOutput ==
    /\ pc = "idle"
    /\ zeroIO' = "none"
    /\ callStart' = consumed
    /\ IF sock_reader = "None"
       THEN /\ outcome' = Outcome("read_output", "AttributeError", <<>>)
            /\ UNCHANGED <<pc, n, data, readStart>>
       ELSE /\ pc' = "ro_preamble"
            /\ n' = 8
            /\ data' = <<>>
            /\ readStart' = consumed
            /\ outcome' = Outcome("read_output", "running", <<>>)
    /\ UNCHANGED <<configVars, elsewhere, reclosed, sessVars, header, lastRead, writeVars, peerVars, consumed,
                   sockClosed, wire, opened, ready, sentLog>>

\* one pass of the loop of _SocketReader.read, and what follows its return
RecvStep ==
    /\ pc \in ReadPcs
    /\ Len(data) < n
    /\ IF sockClosed
       THEN /\ pc' = "idle"
            /\ outcome' = Outcome(CallOf(pc), Escapes(pc, "OSError"), <<>>)
            /\ n' = 0
            /\ data' = <<>>
            /\ UNCHANGED <<header, readStart, lastRead, consumed, zeroIO, ready>>
       ELSE IF consumed = Len(stream)
       THEN \* recv blocks until the peer sends or closes; closed, it returns b""
            /\ peerClosed
            /\ pc' = "idle"
            /\ outcome' = Outcome(CallOf(pc), Escapes(pc, "BrokenPipeError"), <<>>)
            /\ zeroIO' = pc
            /\ n' = 0
            /\ data' = <<>>
            /\ UNCHANGED <<header, readStart, lastRead, consumed, ready>>
       ELSE \E k \in 1..Min(RecvSize(n, data), Len(stream) - consumed) :
            LET d == data \o SubSeq(stream, consumed + 1, consumed + k) IN
            /\ consumed' = consumed + k
            /\ IF Len(d) < n
               THEN /\ data' = d
                    /\ UNCHANGED <<pc, n, header, readStart, lastRead, outcome, ready>>
               ELSE LET r == ReadReturned(d) IN
                    /\ pc' = r.pc
                    /\ n' = r.n
                    /\ header' = r.header
                    /\ data' = <<>>
                    /\ readStart' = consumed + k
                    /\ lastRead' = IF r.read0
                                   THEN [n |-> r.header.length, at |-> consumed + k,
                                         bytes |-> <<>>, upto |-> consumed + k]
                                   ELSE [n |-> n, at |-> readStart, bytes |-> d,
                                         upto |-> consumed + k]
                    /\ outcome' = Outcome(CallOf(pc), r.status, r.args)
                    /\ ready' = IF CallOf(pc) = "handshake" THEN r.status = "ok" ELSE ready
            /\ UNCHANGED zeroIO
    /\ UNCHANGED <<configVars, elsewhere, reclosed, sock_reader, sock_writer, writeVars, peerVars,
                   sockClosed, wire, callStart, opened, sentLog>>

\* the application calls sock_writer.close().  _sock.close() may raise (OSError
\* from the descriptor's close); the socket object has let go of its descriptor
\* by then, so the socket is closed either way.
WriterClose ==
    /\ pc = "idle"
    /\ sock_writer # "None"
    /\ sockClosed' = TRUE
    /\ reclosed' = (reclosed \/ sockClosed)
    /\ \E exc \in {"ok", "OSError"} :
          outcome' = Outcome("close", CloseExcept(exc), <<>>)
    /\ zeroIO' = "none"
    /\ UNCHANGED <<configVars, elsewhere, sessVars, pc, readVars, writeVars, peerVars, consumed,
                   wire, callStart, opened, ready, sentLog>>

\* -------------------------------------------------------------- the peer
\* The peer can write while its end is open.  Its writes commute with the
\* client's send steps and with recv steps that still find bytes buffered, so
\* they are taken only while the client is between calls or blocked in recv.
Blocked == pc \in ReadPcs /\ consumed = Len(stream)

Connected == /\ sock_reader # "None"
             /\ ~peerClosed
             /\ ~sockClosed
             /\ (pc = "idle" \/ Blocked)

PeerPut(bytes, kind, op, obj) ==
    /\ Len(stream) + Len(bytes) <= MaxStream
    /\ stream' = stream \o bytes
    /\ peerLog' = Append(peerLog, [at |-> Len(stream), kind |-> kind, op |-> op, obj |-> obj])

\* the peer writes one frame
PeerSend(r) ==
    /\ Connected
    /\ PeerPut(FrameBytes(r.op, r.obj), "json", r.op, r.obj)
    /\ UNCHANGED <<configVars, elsewhere, reclosed, sessVars, pc, readVars, writeVars, outcome, consumed,
                   peerClosed, sockClosed, wire, callStart, zeroIO, opened,
                   ready, sentLog, echoed>>

\* the peer writes bytes that are no well-formed frame
PeerSendRaw(bytes) ==
    /\ Connected
    /\ PeerPut(bytes, "raw", 0, NoObj)
    /\ UNCHANGED <<configVars, elsewhere, reclosed, sessVars, pc, readVars, writeVars, outcome, consumed,
                   peerClosed, sockClosed, wire, callStart, zeroIO, opened,
                   ready, sentLog, echoed>>

\* the peer writes the first k bytes of a frame and closes its end
PeerSendPartial(k) ==
    /\ Connected
    /\ PeerPut(SubSeq(PartialFrame, 1, k), "partial", 0, NoObj)
    /\ peerClosed' = TRUE
    /\ UNCHANGED <<configVars, elsewhere, reclosed, sessVars, pc, readVars, writeVars, outcome, consumed,
                   sockClosed, wire, callStart, zeroIO, opened,
                   ready, sentLog, echoed>>

\* a loopback peer: it writes back the next frame the client has written
PeerEcho ==
    /\ Connected
    /\ echoed < Len(sentLog)
    /\ LET f == sentLog[echoed + 1] IN
       /\ f.at + f.len <= Len(wire)
       /\ PeerPut(SubSeq(wire, f.at + 1, f.at + f.len), "echo", f.op, f.p)
    /\ echoed' = echoed + 1
    /\ UNCHANGED <<configVars, elsewhere, reclosed, sessVars, pc, readVars, writeVars, outcome, consumed,
                   peerClosed, sockClosed, wire, callStart, zeroIO, opened,
                   ready, sentLog>>

\* the peer closes its end
PeerClose ==
    /\ sock_reader # "None"
    /\ ~peerClosed
    /\ ~sockClosed
    /\ (pc = "idle" \/ Blocked \/ pc \in WritePcs)
    /\ peerClosed' = TRUE
    /\ UNCHANGED <<configVars, elsewhere, reclosed, sessVars, pc, readVars, writeVars, outcome, stream,
                   consumed, sockClosed, wire, callStart, zeroIO,
                   opened, ready, peerLog, sentLog, echoed>>

Next ==
    \/ Handshake
    \/ \E op \in Opcodes, p \in SendPayloads : SendData(op, p)
    \/ WriteStep
    \/ ReadOutput
    \/ RecvStep
    \/ WriterClose
    \/ \E r \in Replies : PeerSend(r)
    \/ \E bytes \in RawMsgs : PeerSendRaw(bytes)
    \/ \E k \in PartialCuts : PeerSendPartial(k)
    \/ PeerEcho
    \/ PeerClose

Spec == Init /\ [][Next]_vars

\* ------------------------------------------------- windows_ipc.NamedPipe
\* NamedPipe.create_pipe: the handle CreateNamedPipeW returns is stored before
\* it is checked.  The pipe allows one instance, so creation fails while the
\* kernel object of an earlier create_pipe is open.
CreatePipe ==
    /\ np_pc = "idle"
    /\ \E ok \in {b \in BOOLEAN : b => ~handleOpen} :
          IF ok
          THEN /\ handle' = "h"
               /\ handleOpen' = TRUE
               /\ np_out' = Outcome("create_pipe", "ok", <<>>)
          ELSE /\ handle' = "INVALID"
               /\ np_out' = Outcome("create_pipe", "Exception",
                                    <<"Failed to create named pipe">>)
               /\ UNCHANGED handleOpen
    /\ UNCHANGED <<clientVars, registryVars, headerVars, np_reclosed, np_pc, np_wire, cuts, accept>>

\* NamedPipe.close: CloseHandle's result is not looked at
PipeClose ==
    /\ np_pc = "idle"
    /\ IF handle # "None"
       THEN /\ \E success \in {b \in BOOLEAN : b => handle = "h"} :
                  handleOpen' = IF success THEN FALSE ELSE handleOpen
            /\ handle' = "None"
            /\ UNCHANGED np_reclosed
       ELSE /\ np_reclosed' = TRUE
            /\ UNCHANGED <<handle, handleOpen>>
    /\ np_out' = Outcome("close", "ok", <<>>)
    /\ UNCHANGED <<clientVars, registryVars, headerVars, np_pc, np_wire, cuts, accept>>

\* ------------------------------------ the two transports, side by side
\* the byte streams a transport is given to read or to write
Streams == {[i \in 1..len |-> 10 * i] : len \in 1..MaxIn}

\* the ways the primitive may split a stream: the offsets where its reads stop
Splittings(s) == SUBSET (1..(Len(s) - 1))

\* where a read of the primitive that starts at offset pos stops at the latest
ChunkEnd(s, cs, pos) ==
    CHOOSE c \in cs \cup {Len(s)} :
        /\ c > pos
        /\ \A d \in cs \cup {Len(s)} : d > pos => c <= d

\* The same read(want) is called on the _SocketReader and on the NamedPipe, on
\* the same stream split the same way; the peer has closed after the stream.
\* Each call starts on a fresh pair of channels.
StartRead(s, cs, want) ==
    /\ pc = "idle"
    /\ np_pc = "idle"
    /\ stream' = s
    /\ cuts' = cs
    /\ consumed' = 0
    /\ n' = want
    /\ data' = <<>>
    /\ pc' = "sk_read"
    /\ np_pc' = "read"
    /\ outcome' = Outcome("read", "running", <<>>)
    /\ np_out' = Outcome("read", "running", <<>>)
    /\ wdata' = <<>>
    /\ total_sent' = 0
    /\ wire' = <<>>
    /\ np_wire' = <<>>
    /\ accept' = 0
    /\ UNCHANGED <<clientRest, registryVars, headerVars, handle, handleOpen, np_reclosed>>

\* one pass of the loop of _SocketReader.read, the socket handing over what
\* the splitting lets it
SockRecv ==
    /\ pc = "sk_read"
    /\ IF sockClosed
       THEN /\ pc' = "idle"
            /\ outcome' = Outcome("read", "OSError", <<>>)
            /\ UNCHANGED <<data, consumed>>
       ELSE IF consumed = Len(stream)
       THEN /\ pc' = "idle"
            /\ outcome' = Outcome("read", "BrokenPipeError", <<>>)
            /\ UNCHANGED <<data, consumed>>
       ELSE LET k == Min(RecvSize(n, data), ChunkEnd(stream, cuts, consumed) - consumed)
                d == data \o SubSeq(stream, consumed + 1, consumed + k)
            IN /\ data' = d
               /\ consumed' = consumed + k
               /\ IF Len(d) < n
                  THEN UNCHANGED <<pc, outcome>>
                  ELSE /\ pc' = "idle"
                       /\ outcome' = Outcome("read", "ok", <<d>>)
    /\ UNCHANGED <<clientRest, registryVars, headerVars, pipeVars, n, stream, wdata, total_sent, wire>>

\* NamedPipe.read(size): one ReadFile, which fails on a handle that is not open
PipeRead ==
    /\ np_pc = "read"
    /\ np_pc' = "idle"
    /\ IF handle # "h"
       THEN np_out' = Outcome("read", "Exception", <<"Failed to read from named pipe">>)
       ELSE LET bytes_read == Min(n, ChunkEnd(stream, cuts, 0))
            IN np_out' = Outcome("read", "ok", <<SubSeq(stream, 1, bytes_read)>>)
    /\ UNCHANGED <<clientVars, registryVars, headerVars, handle, handleOpen, np_reclosed, np_wire,
                   cuts, accept>>

\* The same write(d) is called on the _SocketWriter and on the NamedPipe, the
\* primitive accepting at most a bytes in one call.
StartWrite(d, a) ==
    /\ pc = "idle"
    /\ np_pc = "idle"
    /\ wdata' = d
    /\ total_sent' = 0
    /\ wire' = <<>>
    /\ np_wire' = <<>>
    /\ accept' = a
    /\ pc' = "sk_write"
    /\ np_pc' = "write"
    /\ outcome' = Outcome("write", "running", <<>>)
    /\ np_out' = Outcome("write", "running", <<>>)
    /\ n' = 0
    /\ data' = <<>>
    /\ stream' = <<>>
    /\ consumed' = 0
    /\ cuts' = {}
    /\ UNCHANGED <<clientRest, registryVars, headerVars, handle, handleOpen, np_reclosed>>

\* one pass of the loop of _SocketWriter.write
SockSend ==
    /\ pc = "sk_write"
    /\ IF sockClosed
       THEN /\ pc' = "idle"
            /\ outcome' = Outcome("write", "OSError", <<>>)
            /\ UNCHANGED <<wire, total_sent>>
       ELSE LET sent == Min(Len(Rest(wdata, total_sent)), accept)
            IN /\ wire' = wire \o SubSeq(Rest(wdata, total_sent), 1, sent)
               /\ total_sent' = total_sent + sent
               /\ IF total_sent + sent < Len(wdata)
                  THEN UNCHANGED <<pc, outcome>>
                  ELSE /\ pc' = "idle"
                       /\ outcome' = Outcome("write", "ok", <<>>)
    /\ UNCHANGED <<clientRest, registryVars, headerVars, pipeVars, n, data, stream, consumed, wdata>>

\* NamedPipe.write(data): one WriteFile; bytes_written is not looked at
PipeWrite ==
    /\ np_pc = "write"
    /\ np_pc' = "idle"
    /\ IF handle # "h"
       THEN /\ np_out' = Outcome("write", "Exception", <<"Failed to write to named pipe">>)
            /\ UNCHANGED np_wire
       ELSE LET bytes_written == Min(Len(wdata), accept)
            IN /\ np_wire' = SubSeq(wdata, 1, bytes_written)
               /\ np_out' = Outcome("write", "ok", <<>>)
    /\ UNCHANGED <<clientVars, registryVars, headerVars, handle, handleOpen, np_reclosed, cuts, accept>>

\* The transports on their own: a _SocketReader and a _SocketWriter made over a
\* connected socket, and a NamedPipe.
InitTransport == ClientStart("sock") /\ PipeStart /\ RegistryStart /\ HeaderOff

NextTransport ==
    \/ WriterClose
    \/ CreatePipe
    \/ PipeClose
    \/ \E s \in Streams : \E cs \in Splittings(s), want \in 1..Len(s) : StartRead(s, cs, want)
    \/ SockRecv
    \/ PipeRead
    \/ \E d \in Streams, a \in 1..MaxIn : StartWrite(d, a)
    \/ SockSend
    \/ PipeWrite

SpecTransport == InitTransport /\ [][NextTransport]_vars

\* ------------------------------------------- the simulated pipe functions
\* a create_named_pipe that stores a new Queue under the name every time
SetAlways(reg, name) ==
    [nm \in DOMAIN reg \cup {name} |-> IF nm = name THEN <<>> ELSE reg[nm]]

\* _pipes_registry.setdefault(pipe_name, Queue())
SetDefault(reg, name) ==
    IF name \in DOMAIN reg THEN reg
    ELSE [nm \in DOMAIN reg \cup {name} |-> IF nm = name THEN <<>> ELSE reg[nm]]

\* a named_pipe_exists that looks for a pipe with messages waiting
PipeExistsNonEmpty(reg, name) == name \in DOMAIN reg /\ reg[name] # <<>>

\* pipe_name in _pipes_registry
PipeExists(reg, name) == name \in DOMAIN reg

\* _pipes_registry.get(pipe_name)
RegistryGet(reg, name) == IF name \in DOMAIN reg THEN name ELSE "None"

\* a queue that hands out its newest item
QueueGetNewest(items) == [item |-> items[Len(items)],
                          rest |-> SubSeq(items, 1, Len(items) - 1)]

\* Queue.get on a queue that is not empty: the oldest item
QueueGet(items) == [item |-> Head(items), rest |-> Tail(items)]

\* a receive_message that waits for its message inside the with block
LockWhileWaiting(t) == t

\* receive_message, lines 192-196: the with block ends before q.get
LockAfterLookup(t) == Free

\* what a thread's step leaves of the thread's own state
ThreadTo(t, p, args, q) ==
    /\ tpc' = [tpc EXCEPT ![t] = p]
    /\ targs' = [targs EXCEPT ![t] = args]
    /\ tq' = [tq EXCEPT ![t] = q]

\* the thread's call returns the value, or raises the exception
Return(t, call, name, status, value, known) ==
    /\ ThreadTo(t, "idle", NoArgs, "None")
    /\ returned' = [thread |-> t, call |-> call, name |-> name, status |-> status,
                    value |-> value, known |-> known]

\* create_named_pipe(pipe_name): no lock is taken
CreateNamedPipe(t, name) ==
    /\ tpc[t] = "idle"
    /\ registry' = SetDefault(registry, name)
    /\ created' = created \cup {name}
    /\ Return(t, "create_named_pipe", name, "ok", name, name \in created)
    /\ UNCHANGED <<clientVars, pipeVars, headerVars, lock, nsent, sentSeq, rcvSeq>>

\* a thread enters named_pipe_exists, send_message or receive_message and
\* reaches the with statement
CallLocked(t, call, name, msg) ==
    /\ tpc[t] = "idle"
    /\ call = "send_message" => nsent < MaxSends
    /\ nsent' = IF call = "send_message" THEN nsent + 1 ELSE nsent
    /\ ThreadTo(t, "lock",
                [call |-> call, name |-> name,
                 data |-> IF call = "send_message" THEN <<nsent + 1, msg>> ELSE <<>>,
                 known |-> call = "named_pipe_exists" /\ name \in created],
                "None")
    /\ returned' = NoReturn
    /\ UNCHANGED <<clientVars, pipeVars, headerVars, registry, lock, created, sentSeq, rcvSeq>>

\* with _pipes_lock: the thread gets the lock once it is free
Acquire(t) ==
    /\ tpc[t] = "lock"
    /\ lock = Free
    /\ lock' = t
    /\ tpc' = [tpc EXCEPT ![t] = "locked"]
    /\ returned' = NoReturn
    /\ UNCHANGED <<clientVars, pipeVars, headerVars, registry, targs, tq, nsent, created,
                   sentSeq, rcvSeq>>

\* named_pipe_exists, line 122: the answer, and the end of the with block
ExistsReturn(t) ==
    /\ tpc[t] = "locked"
    /\ targs[t].call = "named_pipe_exists"
    /\ lock' = Free
    /\ Return(t, "named_pipe_exists", targs[t].name, "ok",
              PipeExists(registry, targs[t].name), targs[t].known)
    /\ UNCHANGED <<clientVars, pipeVars, headerVars, registry, nsent, created, sentSeq, rcvSeq>>

\* send_message, lines 155-157: the lookup under the lock
SendLookup(t) ==
    /\ tpc[t] = "locked"
    /\ targs[t].call = "send_message"
    /\ LET q == RegistryGet(registry, targs[t].name) IN
       IF q = "None"
       THEN /\ lock' = Free
            /\ Return(t, "send_message", targs[t].name, "FileNotFoundError", "",
                      targs[t].known)
       ELSE /\ ThreadTo(t, "put", targs[t], q)
            /\ returned' = NoReturn
            /\ UNCHANGED lock
    /\ UNCHANGED <<clientVars, pipeVars, headerVars, registry, nsent, created, sentSeq, rcvSeq>>

\* send_message, line 158: q.put on the unbounded Queue, and the end of the
\* with block, after which the call returns
SendPut(t) ==
    /\ tpc[t] = "put"
    /\ registry' = [registry EXCEPT ![tq[t]] = Append(@, targs[t].data)]
    /\ sentSeq' = [sentSeq EXCEPT ![tq[t]] = Append(@, targs[t].data)]
    /\ lock' = Free
    /\ Return(t, "send_message", targs[t].name, "ok", targs[t].data, targs[t].known)
    /\ UNCHANGED <<clientVars, pipeVars, headerVars, nsent, created, rcvSeq>>

\* receive_message, lines 192-195: the lookup under the lock
ReceiveLookup(t) ==
    /\ tpc[t] = "locked"
    /\ targs[t].call = "receive_message"
    /\ LET q == RegistryGet(registry, targs[t].name) IN
       IF q = "None"
       THEN /\ lock' = Free
            /\ Return(t, "receive_message", targs[t].name, "FileNotFoundError", "",
                      targs[t].known)
       ELSE /\ lock' = LockAfterLookup(t)
            /\ ThreadTo(t, "get", targs[t], q)
            /\ returned' = NoReturn
    /\ UNCHANGED <<clientVars, pipeVars, headerVars, registry, nsent, created, sentSeq, rcvSeq>>

\* receive_message, line 197: q.get returns the oldest item once there is one
ReceiveGet(t) ==
    /\ tpc[t] = "get"
    /\ registry[tq[t]] # <<>>
    /\ LET g == QueueGet(registry[tq[t]]) IN
       /\ registry' = [registry EXCEPT ![tq[t]] = g.rest]
       /\ rcvSeq' = [rcvSeq EXCEPT ![tq[t]] = Append(@, g.item)]
       /\ Return(t, "receive_message", targs[t].name, "ok", g.item, targs[t].known)
    /\ UNCHANGED <<clientVars, pipeVars, headerVars, lock, nsent, created, sentSeq>>

\* receive_message, lines 198-199: the queue stayed empty for the timeout
ReceiveTimeout(t) ==
    /\ tpc[t] = "get"
    /\ registry[tq[t]] = <<>>
    /\ Return(t, "receive_message", targs[t].name, "TimeoutError", "", targs[t].known)
    /\ UNCHANGED <<clientVars, pipeVars, headerVars, registry, lock, nsent, created, sentSeq, rcvSeq>>

InitRegistry == ClientStart("None") /\ PipeStart /\ RegistryStart /\ HeaderOff

NextRegistry ==
    \E t \in Threads :
        \/ \E name \in PipeNames : CreateNamedPipe(t, name)
        \/ \E name \in PipeNames :
              \E call \in {"named_pipe_exists", "receive_message"} :
                 CallLocked(t, call, name, "")
        \/ \E name \in PipeNames, msg \in Messages :
              CallLocked(t, "send_message", name, msg)
        \/ Acquire(t)
        \/ ExistsReturn(t)
        \/ SendLookup(t)
        \/ SendPut(t)
        \/ ReceiveLookup(t)
        \/ ReceiveGet(t)
        \/ ReceiveTimeout(t)

SpecRegistry == InitRegistry /\ [][NextRegistry]_vars

\* --------------------------------------------- the two header decodings
\* handshake, line 193: code, length = struct.unpack("<ii", preamble)
UnpackInHandshake ==
    /\ "handshake" \notin unpackedBy
    /\ hsHeader' = UnpackiiWords(preamble)
    /\ unpackedBy' = unpackedBy \cup {"handshake"}
    /\ UNCHANGED <<clientVars, pipeVars, registryVars, preamble, roHeader>>

\* read_output, line 113: status_code, length = struct.unpack("<II", preamble[:8])
UnpackInReadOutput ==
    /\ "read_output" \notin unpackedBy
    /\ roHeader' = UnpackIIWords(SubSeq(preamble, 1, 8))
    /\ unpackedBy' = unpackedBy \cup {"read_output"}
    /\ UNCHANGED <<clientVars, pipeVars, registryVars, preamble, hsHeader>>

\* read(8) has returned the same 8 bytes to a handshake and to a read_output
InitHeader ==
    /\ ClientStart("None") /\ PipeStart /\ RegistryStart
    /\ preamble \in Headers
    /\ hsHeader = NoWords
    /\ roHeader = NoWords
    /\ unpackedBy = {}

NextHeader == UnpackInHandshake \/ UnpackInReadOutput

SpecHeader == InitHeader /\ [][NextHeader]_vars

\* ------------------------------------------------------------- the claims
HandshakeRequest == FrameBytes(0, [v |-> "1", client_id |-> client_id])

\* the last call was handshake and it has ended
HandshakeEnded == pc = "idle" /\ outcome.call = "handshake"

\* the peer's first message on the connection is a whole frame with a JSON body
FirstIsFrame == peerLog # <<>> /\ peerLog[1].kind \in {"json", "echo"}

\* C1: every read(n) that returns hands back exactly the n bytes of the stream
\* that follow the position it was entered at, and leaves the stream position
\* right after them; a read still running holds the bytes consumed so far and
\* fewer than n of them.
C1_ReadExact ==
    /\ lastRead.n >= 0 =>
          /\ Len(lastRead.bytes) = lastRead.n
          /\ lastRead.bytes = SubSeq(stream, lastRead.at + 1, lastRead.at + lastRead.n)
          /\ lastRead.upto = lastRead.at + lastRead.n
    /\ pc \in ReadPcs =>
          /\ Len(data) < n
          /\ data = SubSeq(stream, readStart + 1, consumed)

\* a payload read of 6 bytes has returned while the stream holds more
C1_Witness ==
    /\ lastRead.n = 6
    /\ lastRead.at = 8
    /\ lastRead.upto < Len(stream)

\* C2 (as claimed): a send_data that ends normally has delivered its whole frame
\* in order, and one whose send accepted 0 bytes ends with PipeClosed.
C2_WriteAllOrPipeClosed ==
    (pc = "idle" /\ outcome.call = "send_data") =>
        /\ outcome.status = "ok" =>
              LET f == sentLog[Len(sentLog)] IN
              /\ f.at + f.len = Len(wire)
              /\ SubSeq(wire, f.at + 1, f.at + f.len) = FrameBytes(f.op, f.p)
        /\ zeroIO = "send_write" => outcome.status = "PipeClosed"

\* C3: a handshake whose reply is a whole frame with no "code" member returns
\* normally, and the client then holds its reader and writer.
C3_HandshakeAccepted ==
    (HandshakeEnded /\ FirstIsFrame /\ "code" \notin DOMAIN peerLog[1].obj) =>
        /\ outcome.status = "ok"
        /\ sock_reader = "sock"
        /\ sock_writer = "sock"
        /\ ready

\* the peer answered {"v": 1} and the handshake returned
C3_Witness ==
    /\ HandshakeEnded
    /\ outcome.status = "ok"
    /\ peerLog # <<>>
    /\ peerLog[1].kind = "json"
    /\ peerLog[1].obj = [v |-> "1"]
    /\ wire = HandshakeRequest

\* the first message of the peer is a frame whose body has a "code" member
FirstIsRejection == FirstIsFrame /\ "code" \in DOMAIN peerLog[1].obj

\* C4 (as claimed): a handshake whose reply has a "code" member ends with
\* InvalidID exactly when the reply's message is "Invalid Client ID", and
\* otherwise with DiscordError carrying the reply's code and message.
C4_RejectionClassified ==
    (HandshakeEnded /\ FirstIsRejection) =>
        LET obj == peerLog[1].obj IN
        IF "message" \in DOMAIN obj /\ obj["message"] = "Invalid Client ID"
        THEN outcome.status = "InvalidID"
        ELSE /\ outcome.status = "DiscordError"
             /\ outcome.args[1] = obj["code"]
             /\ "message" \in DOMAIN obj
             /\ outcome.args[2] = obj["message"]

\* C4 (amended): the same, for the replies that have both a "code" and a
\* "message" member.
C4_RejectionWithMessage ==
    (HandshakeEnded /\ FirstIsRejection /\ "message" \in DOMAIN peerLog[1].obj) =>
        LET obj == peerLog[1].obj IN
        IF obj["message"] = "Invalid Client ID"
        THEN outcome.status = "InvalidID"
        ELSE /\ outcome.status = "DiscordError"
             /\ outcome.args = <<obj["code"], obj["message"]>>

\* the peer answered {"code": 4001, "message": "Something else"} and the
\* handshake ended with DiscordError(4001, "Something else")
C4_Witness ==
    /\ HandshakeEnded
    /\ FirstIsRejection
    /\ peerLog[1].obj = [code |-> "4001", message |-> "Something else"]
    /\ outcome.status = "DiscordError"
    /\ outcome.args = <<"4001", "Something else">>

\* C5 (as claimed): a handshake that has sent its request and whose peer closes
\* after fewer than 8 bytes of reply ends with InvalidPipe.
C5_ShortReplyInvalidPipe ==
    (HandshakeEnded /\ opened /\ wire = HandshakeRequest
        /\ peerClosed /\ Len(stream) < 8) =>
        outcome.status = "InvalidPipe"

\* C6 (as claimed): a handshake that fails after it opened the socket leaves
\* the client without reader and writer, and the socket closed.
C6_FailedHandshakeReleases ==
    (HandshakeEnded /\ opened /\ outcome.status # "ok") =>
        /\ sock_reader = "None"
        /\ sock_writer = "None"
        /\ sockClosed

\* C7 (as claimed): while no handshake has returned normally, send_data never
\* reaches the writer, and it never ends normally.
C7_NoSendBeforeReady ==
    ~ready =>
        /\ pc # "send_write"
        /\ outcome.call = "send_data" => outcome.status # "ok"

\* C8 (as claimed): once a call on a ready client has ended with PipeClosed or
\* ServerError, the client holds no reader and no writer and its socket is closed.
C8_FaultReleases ==
    (ready /\ pc = "idle" /\ outcome.call \in {"read_output", "send_data"}
        /\ outcome.status \in {"PipeClosed", "ServerError"}) =>
        /\ sock_reader = "None"
        /\ sock_writer = "None"
        /\ sockClosed

\* the last call ended because recv returned b""
ZeroLengthRead == pc = "idle" /\ zeroIO \in ReadPcs

EchoesRead == {i \in DOMAIN peerLog : peerLog[i].kind = "echo" /\ peerLog[i].at = callStart}

\* C10 (as claimed): on a ready client, a read_output that reads the echo of
\* send_data(op, p) returns p, having unpacked op and the payload's byte count from the header.
C10_RoundTrip ==
    (ready /\ pc = "idle" /\ outcome.call = "read_output" /\ ~sockClosed) =>
        \A i \in EchoesRead :
            /\ outcome.status = "ok"
            /\ outcome.args = <<peerLog[i].obj>>
            /\ header.op = peerLog[i].op
            /\ header.length = Len(Dumps(peerLog[i].obj))

\* the whole frames of the peer that start where the last call began to read
FramesRead == {i \in DOMAIN peerLog : /\ peerLog[i].kind \in {"json", "echo"}
                                      /\ peerLog[i].at = callStart}

\* a read_output on a ready client has ended, and the socket was not closed under it
ReceiveEnded == ready /\ pc = "idle" /\ outcome.call = "read_output" /\ ~sockClosed

\* C11 (as claimed): every read_output that starts at the header of a frame the
\* peer wrote delivers that frame (as its return value, or as the ServerError an
\* "ERROR" event stands for) and consumes exactly its 8 + length bytes, so that
\* the next read_output starts at the header of the frame written next.
C11_InOrderFraming ==
    ReceiveEnded =>
        \A i \in FramesRead :
            /\ outcome.status \in {"ok", "ServerError"}
            /\ outcome.status = "ok" => outcome.args = <<peerLog[i].obj>>
            /\ consumed = peerLog[i].at + 8 + Len(Dumps(peerLog[i].obj))
            /\ i < Len(peerLog) => consumed = peerLog[i + 1].at

\* C12 (as claimed): a read_output on a ready client that reads a whole frame
\* ends with ServerError carrying the body's data.message when the body's "evt"
\* is "ERROR", and returns the body in every other case, a body with no "evt"
\* member included.
C12_ErrorOrFrame ==
    ReceiveEnded =>
        \A i \in FramesRead :
            LET obj == peerLog[i].obj IN
            IF "evt" \in DOMAIN obj /\ obj["evt"] = "ERROR"
            THEN /\ outcome.status = "ServerError"
                 /\ outcome.args = <<obj["data"]>>
            ELSE /\ outcome.status = "ok"
                 /\ outcome.args = <<obj>>

\* C13: close() never raises, on the socket writer and on the NamedPipe, whether
\* the transport is open, already closed, or its primitive faults on close; and
\* a close() on a transport already closed leaves it as the first close() left it.
C13_CloseIdempotent ==
    [][ /\ WriterClose =>
              /\ outcome'.status = "ok"
              /\ sockClosed'
              /\ sockClosed => UNCHANGED <<sessVars, peerVars, consumed, wire, sockClosed>>
        /\ PipeClose =>
              /\ np_out'.status = "ok"
              /\ handle' = "None"
              /\ handle = "None" => UNCHANGED <<handle, handleOpen>>
      ]_vars

\* both transports have been closed, and then closed again
C13_Witness ==
    /\ reclosed
    /\ sockClosed
    /\ outcome = Outcome("close", "ok", <<>>)
    /\ np_reclosed
    /\ handle = "None"
    /\ ~handleOpen
    /\ np_out = Outcome("close", "ok", <<>>)

\* the items waiting in the queue of a name, oldest first
Queued(nm) == IF nm \in DOMAIN registry THEN registry[nm] ELSE <<>>

\* C14: on every pipe name, the messages receive_message has returned, followed
\* by the messages still queued, are the messages sent, unchanged and in the
\* order their sends completed; so no message is returned twice, and a
\* receive_message that returns hands back the oldest message not yet returned.
C14_PipeDelivery ==
    /\ \A nm \in PipeNames : rcvSeq[nm] \o Queued(nm) = sentSeq[nm]
    /\ (returned.call = "receive_message" /\ returned.status = "ok") =>
          LET got == rcvSeq[returned.name] IN
          /\ got # <<>>
          /\ returned.value = got[Len(got)]
          /\ returned.value = sentSeq[returned.name][Len(got)]

\* two messages were sent to one pipe and the second receive_message has just
\* returned the second of them
C14_Witness ==
    /\ returned.call = "receive_message"
    /\ returned.status = "ok"
    /\ Len(sentSeq[returned.name]) = 2
    /\ rcvSeq[returned.name] = sentSeq[returned.name]
    /\ returned.value = sentSeq[returned.name][2]

\* C15: named_pipe_exists(name) answers True when it is called after
\* create_named_pipe(name) has returned, whatever was created, sent and received
\* since, and False for a name no create_named_pipe was called with.
C15_PipeExists ==
    returned.call = "named_pipe_exists" =>
        /\ returned.status = "ok"
        /\ returned.known => returned.value = TRUE
        /\ returned.name \notin created => returned.value = FALSE

\* named_pipe_exists has just answered True for a pipe that was created, written
\* to and emptied again before the call
C15_Witness ==
    /\ returned.call = "named_pipe_exists"
    /\ returned.known
    /\ returned.value = TRUE
    /\ sentSeq[returned.name] # <<>>
    /\ Queued(returned.name) = <<>>
    /\ created # PipeNames

\* the bytes written are one frame: opcode 0, the length of its body, and the
\* body {"v": 1, "client_id": client_id}
OneRequestWritten ==
    /\ Len(wire) > 8
    /\ UnpackII(SubSeq(wire, 1, 8)) = [op |-> 0, length |-> Len(wire) - 8]
    /\ IsJSON(SubSeq(wire, 9, Len(wire)))
    /\ Loads(SubSeq(wire, 9, Len(wire))) = [v |-> "1", client_id |-> client_id]

\* C16: a handshake writes its opcode-0 frame first and reads no byte of the
\* reply before the frame is written whole; when it has decoded the reply
\* (returning, or failing with InvalidID or DiscordError) it has written that one
\* frame only and consumed exactly the one reply frame; and a handshake that
\* fails with DiscordNotFound has opened nothing and written nothing.
C16_HandshakeOrder ==
    /\ pc = "hs_write" =>
          /\ consumed = 0
          /\ wire = SubSeq(HandshakeRequest, 1, total_sent)
    /\ pc \in {"hs_preamble", "hs_body"} => OneRequestWritten
    /\ (HandshakeEnded /\ outcome.status \in {"ok", "InvalidID", "DiscordError"}) =>
          /\ OneRequestWritten
          /\ FirstIsFrame
          /\ consumed = 8 + Len(Dumps(peerLog[1].obj))
    /\ (HandshakeEnded /\ outcome.status = "DiscordNotFound") =>
          /\ ~opened
          /\ wire = <<>>
          /\ sock_writer = "None"

\* the handshake has returned having consumed the reply {"v": 1} and nothing of
\* the frame the peer wrote after it
C16_Witness ==
    /\ HandshakeEnded
    /\ outcome.status = "ok"
    /\ OneRequestWritten
    /\ consumed = 12
    /\ Len(peerLog) = 2
    /\ Len(stream) > consumed

\* the same call has ended on both transports without a fault
BothEnded(call) ==
    /\ pc = "idle"
    /\ np_pc = "idle"
    /\ outcome = Outcome(call, "ok", outcome.args)
    /\ np_out = Outcome(call, "ok", np_out.args)

\* C17 (as claimed): on the same stream split the same way, read(n) returns the
\* same n bytes from the NamedPipe as from the _SocketReader, and write(data)
\* delivers the same complete data through the NamedPipe as through the
\* _SocketWriter.
C17_BackendsAgree ==
    /\ BothEnded("read") =>
          /\ outcome.args = <<SubSeq(stream, 1, n)>>
          /\ np_out.args = outcome.args
    /\ BothEnded("write") =>
          /\ wire = wdata
          /\ np_wire = wire

\* C18 (as claimed): the handshake and read_output unpack the same 8-byte
\* header to the same opcode and length, both non-negative, also when a field's
\* top bit is set.
C18_HeaderUnsigned ==
    /\ Len(preamble) \in {0, 8}
    /\ unpackedBy = {"handshake", "read_output"} =>
          /\ hsHeader = roHeader
          /\ hsHeader.op.top >= 0
          /\ hsHeader.length.top >= 0

\* a read_output has ended on a socket the client had not closed
DecodeEnded ==
    /\ pc = "idle"
    /\ outcome.call = "read_output"
    /\ sock_reader # "None"
    /\ ~sockClosed

\* the bytes the peer had written from where the last call began to read
Offered == Len(stream) - callStart

\* C19 (as claimed): a read_output that meets a whole frame whose payload is not
\* JSON, or a header cut short, ends with MalformedFrame; one that meets the
\* peer's close with no byte of a frame ends with PipeClosed; so a malformed
\* frame and a closed channel are told apart.
C19_FaultSeparation ==
    DecodeEnded =>
        /\ \A i \in DOMAIN peerLog :
              (peerLog[i].at = callStart /\ peerLog[i].kind = "raw") =>
                  outcome.status = "MalformedFrame"
        /\ (peerClosed /\ Offered > 0 /\ Offered < 8) => outcome.status = "MalformedFrame"
        /\ (peerClosed /\ Offered = 0) => outcome.status = "PipeClosed"

\* the step a thread that holds the lock takes next
HolderStep(t) == ExistsReturn(t) \/ SendLookup(t) \/ SendPut(t) \/ ReceiveLookup(t)

\* C20: a receive_message waiting in q.get does not hold _pipes_lock; whoever
\* holds the lock can take its next step, so the lock comes free and the calls
\* waiting for it can go on; a waiting receiver whose queue has a message can
\* take it and cannot time out, and one whose queue is empty can end with
\* TimeoutError; a receive_message that ends with TimeoutError
\* leaves its queue empty, and one that ends with FileNotFoundError ends without
\* the lock and without having added its name to the registry.
C20_NoRegistryDeadlock ==
    /\ \A t \in Threads :
          /\ tpc[t] = "get" => lock # t
          /\ lock = t => ENABLED HolderStep(t)
          /\ (tpc[t] = "lock" /\ lock = Free) => ENABLED Acquire(t)
          /\ (tpc[t] = "get" /\ registry[tq[t]] # <<>>) =>
                /\ ENABLED ReceiveGet(t)
                /\ ~ENABLED ReceiveTimeout(t)
          /\ (tpc[t] = "get" /\ registry[tq[t]] = <<>>) => ENABLED ReceiveTimeout(t)
    /\ lock # Free => tpc[lock] \in {"locked", "put"}
    /\ returned.call = "receive_message" =>
          /\ lock # returned.thread
          /\ returned.status = "TimeoutError" => Queued(returned.name) = <<>>
          /\ returned.status = "FileNotFoundError" => returned.name \notin DOMAIN registry

\* a receiver waits on an empty pipe while another thread, holding the lock, is
\* about to put a message on that pipe
C20_Witness ==
    \E t1 \in Threads, t2 \in Threads :
        /\ tpc[t1] = "get"
        /\ registry[tq[t1]] = <<>>
        /\ tpc[t2] = "put"
        /\ tq[t2] = tq[t1]
        /\ lock = t2

====
